---- MODULE Spec2Model ----
(***************************************************************************)
(* The extension editor pane (extensionEditor.ts): the NavBar, the two     *)
(* promise caches, the cancelable content load and the Commands table.     *)
(*                                                                         *)
(* One handler of the program is one action.  A handler runs to completion *)
(* before any promise callback of a still-pending fetch can run, so the    *)
(* operations are written as operators on a record s of the editor's       *)
(* fields and each action commits the record the handler ends with.        *)
(* A promise that is already settled runs its then-callbacks inside the    *)
(* call that registers them (WinJS promises), which is why a fetch can     *)
(* complete in the middle of setInput.                                     *)
(***************************************************************************)
EXTENDS Integers, Sequences, FiniteSets, TLC

VARIABLES
    input,                  \* extension of the last setInput, 0 before any
    disposed,               \* dispose() was called
    actions,                \* NavBar.actions: <<[id, enabled]>>
    listeners,              \* listeners of NavBar._onChange: bound extension of each
    fired,                  \* ids fired on _onChange by the last operation
    lastRun,                \* id the last run() was given since clear(), "" if none
    extensionReadme,        \* Cache: [ext, promise] (promise = fetch id, 0 = null)
    extensionManifest,      \* Cache: [ext, promise]
    fetches,                \* getReadme()/getManifest() calls: <<[kind, ext, status]>>
    loads,                  \* loadContents calls: <<[tab, ext, bound, origin, fetch, status, result]>>
    content,                \* children of this.content: <<[kind, load]>>
    loading,                \* this.content has class 'loading'
    contentDisposables,     \* <<[kind, load]>>
    transientDisposables,   \* <<[kind, ext]>>
    disposables,            \* <<kind>>
    live,                   \* undisposed webviews and their listeners: {[kind, load]}
    readmeCalls,            \* getReadme() calls since the last setInput
    manifestCalls,          \* getManifest() calls since the last setInput
    readmeCancels,          \* pending readme fetches cancelled since the last setInput
    manifestCancels,        \* pending manifest fetches cancelled since the last setInput
    manifest,               \* argument of renderCommands
    rows,                   \* rows renderCommands put in the Commands table
    summary,                \* n of 'Commands (n)', -1 when the section is omitted
    rendered                \* renderCommands has run

vars == <<input, disposed, actions, listeners, fired, lastRun, extensionReadme,
          extensionManifest, fetches, loads, content, loading, contentDisposables,
          transientDisposables, disposables, live, readmeCalls, manifestCalls,
          readmeCancels, manifestCancels, manifest, rows, summary, rendered>>

\* ---- bounds ----
NumExt == 2
MaxLoads == 3
MaxFairLoads == 2
MaxActions == 3
MaxCommands == 2
MaxMenuItems == 2
MaxKeybindings == 1

\* ---- program constants ----
Readme == "readme"
Contributions == "contributions"
NavbarSection == {Readme, Contributions}

Outcomes == {"ok", "bad", "err"}
Arrivals == Outcomes \cup {"pending"}

Cur ==
    [input |-> input, disposed |-> disposed, actions |-> actions,
     listeners |-> listeners, fired |-> fired, lastRun |-> lastRun,
     extensionReadme |-> extensionReadme, extensionManifest |-> extensionManifest,
     fetches |-> fetches, loads |-> loads, content |-> content, loading |-> loading,
     contentDisposables |-> contentDisposables,
     transientDisposables |-> transientDisposables, disposables |-> disposables,
     live |-> live, readmeCalls |-> readmeCalls, manifestCalls |-> manifestCalls,
     readmeCancels |-> readmeCancels, manifestCancels |-> manifestCancels,
     task |-> 0, origin |-> "", arrival |-> "pending"]

Commit(s) ==
    /\ input' = s.input
    /\ disposed' = s.disposed
    /\ actions' = s.actions
    /\ listeners' = s.listeners
    /\ fired' = s.fired
    /\ lastRun' = s.lastRun
    /\ extensionReadme' = s.extensionReadme
    /\ extensionManifest' = s.extensionManifest
    /\ fetches' = s.fetches
    /\ loads' = s.loads
    /\ content' = s.content
    /\ loading' = s.loading
    /\ contentDisposables' = s.contentDisposables
    /\ transientDisposables' = s.transientDisposables
    /\ disposables' = s.disposables
    /\ live' = s.live
    /\ readmeCalls' = s.readmeCalls
    /\ manifestCalls' = s.manifestCalls
    /\ readmeCancels' = s.readmeCancels
    /\ manifestCancels' = s.manifestCancels

\* ---- promises ----

\* The then-callbacks of one load run with the result r of its fetch
\* (openReadme's chain, openContributions' chain), then always()'s callback.
WebviewParts(L) ==
    << [kind |-> "webview", load |-> L],
       [kind |-> "linkListener", load |-> L],
       [kind |-> "themeListener", load |-> L] >>

ReadmeCallbacks(s, L, r) ==
    IF r = "ok"
    THEN [s EXCEPT !.content = Append(@, [kind |-> "webview", load |-> L]),
                   !.contentDisposables = @ \o WebviewParts(L),
                   !.live = @ \cup {WebviewParts(L)[i] : i \in 1..3}]
    ELSE [s EXCEPT !.content = Append(@, [kind |-> "noReadme", load |-> L])]

ContributionsCallbacks(s, L, r) ==
    IF r \in {"ok", "bad"}
    THEN [s EXCEPT !.content = << [kind |-> "subcontent", load |-> L] >>]
    ELSE s

always(s, L, r, st) ==
    [s EXCEPT !.loading = FALSE,
              !.loads[L].status = st,
              !.loads[L].result = r]

CompleteLoad(s, L, r, st) ==
    LET s1 == IF s.loads[L].tab = Readme
              THEN ReadmeCallbacks(s, L, r)
              ELSE ContributionsCallbacks(s, L, r)
    IN always(s1, L, r, st)

\* Every pending load chained on fetch f is notified, in the order the loads
\* were chained; the load `by` (0 = none) is the one whose cancel() caused it.
RECURSIVE NotifyLoads(_, _, _, _, _)
NotifyLoads(s, f, r, by, L) ==
    IF L > Len(s.loads) THEN s
    ELSE IF s.loads[L].fetch = f /\ s.loads[L].status = "pending"
         THEN NotifyLoads(CompleteLoad(s, L, r, IF L = by THEN "cancelled" ELSE "settled"),
                          f, r, by, L + 1)
         ELSE NotifyLoads(s, f, r, by, L + 1)

\* promise.cancel() of a load: nothing if it has settled; otherwise the cancel
\* travels up the chain to the cache's promise, which forgets itself and
\* cancels the fetch; the chain then fails with a 'Canceled' error.
CancelLoad(s, L) ==
    IF s.loads[L].status # "pending" THEN s
    ELSE LET f == s.loads[L].fetch
             s1 == [s EXCEPT
                      !.fetches[f].status = "cancelled",
                      !.extensionReadme.promise = IF @ = f THEN 0 ELSE @,
                      !.extensionManifest.promise = IF @ = f THEN 0 ELSE @,
                      !.readmeCancels = IF s.extensionReadme.promise = f THEN @ + 1 ELSE @,
                      !.manifestCancels = IF s.extensionManifest.promise = f THEN @ + 1 ELSE @]
         IN NotifyLoads(s1, f, "err", L, 1)

\* extension.getReadme() / extension.getManifest(): a new fetch, which arrives
\* already settled (s.arrival in Outcomes) or pending.
Fetch(s, kind, ext) ==
    [s EXCEPT !.fetches = Append(@, [kind |-> kind, ext |-> ext, status |-> s.arrival]),
              !.readmeCalls = IF kind = Readme THEN @ + 1 ELSE @,
              !.manifestCalls = IF kind = Contributions THEN @ + 1 ELSE @,
              !.task = Len(s.fetches) + 1]

\* Cache.get(): the cached promise, or the task's promise, cached.
CacheGet(s, kind) ==
    LET c == IF kind = Readme THEN s.extensionReadme ELSE s.extensionManifest
    IN IF c.promise # 0
       THEN [s EXCEPT !.task = c.promise]
       ELSE LET s1 == Fetch(s, kind, c.ext)
            IN IF kind = Readme
               THEN [s1 EXCEPT !.extensionReadme.promise = s1.task]
               ELSE [s1 EXCEPT !.extensionManifest.promise = s1.task]

\* ---- disposables ----

RemoveFirst(q, x) ==
    IF \E i \in 1..Len(q) : q[i] = x
    THEN LET i == CHOOSE j \in 1..Len(q) : q[j] = x /\ \A k \in 1..(j - 1) : q[k] # x
         IN SubSeq(q, 1, i - 1) \o SubSeq(q, i + 1, Len(q))
    ELSE q

DisposeOne(s, d) ==
    CASE d.kind = "cancel" -> CancelLoad(s, d.load)
      [] d.kind = "webview" ->
            [s EXCEPT !.content = RemoveFirst(@, [kind |-> "webview", load |-> d.load]),
                      !.live = @ \ {d}]
      [] d.kind \in {"linkListener", "themeListener"} -> [s EXCEPT !.live = @ \ {d}]
      [] d.kind = "navbarListener" -> [s EXCEPT !.listeners = RemoveFirst(@, d.ext)]
      [] OTHER -> s

RECURSIVE DisposeAll(_, _)
DisposeAll(s, ds) ==
    IF ds = <<>> THEN s ELSE DisposeAll(DisposeOne(s, Head(ds)), Tail(ds))

\* ---- ExtensionEditor: the content load ----

\* faulty variant: the fetch is issued without the cache
ReadmeTask_Uncached(s) == Fetch(s, Readme, s.extensionReadme.ext)

\* openReadme's loading task starts from this.extensionReadme.get()
ReadmeTask(s) == CacheGet(s, Readme)

\* openContributions' loading task starts from this.extensionManifest.get()
ManifestTask(s) == CacheGet(s, Contributions)

StartTask(s, tab, extension) ==
    LET s1 == IF tab = Readme THEN ReadmeTask(s) ELSE ManifestTask(s)
        f  == s1.task
        L  == Len(s1.loads) + 1
        s2 == [s1 EXCEPT !.loads = Append(@,
                  [tab |-> tab, ext |-> s1.fetches[f].ext, bound |-> extension,
                   origin |-> s.origin, fetch |-> f, status |-> "pending",
                   result |-> "none"])]
    IN IF s2.fetches[f].status \in Outcomes
       THEN CompleteLoad(s2, L, s2.fetches[f].status, "settled")
       ELSE s2

\* faulty variants of loadContents: no cancel of the previous load, no
\* 'loading' class, no clearing of the panel
loadContents_NoCancel(s, tab, extension) ==
    LET s2 == [s EXCEPT !.contentDisposables = <<>>, !.content = <<>>, !.loading = TRUE]
        s3 == StartTask(s2, tab, extension)
    IN [s3 EXCEPT !.contentDisposables =
            Append(@, [kind |-> "cancel", load |-> Len(s3.loads)])]

loadContents_NoLoadingClass(s, tab, extension) ==
    LET s1 == DisposeAll(s, s.contentDisposables)
        s2 == [s1 EXCEPT !.contentDisposables = <<>>, !.content = <<>>]
        s3 == StartTask(s2, tab, extension)
    IN [s3 EXCEPT !.contentDisposables =
            Append(@, [kind |-> "cancel", load |-> Len(s3.loads)])]

loadContents_NoClear(s, tab, extension) ==
    LET s1 == DisposeAll(s, s.contentDisposables)
        s2 == [s1 EXCEPT !.contentDisposables = <<>>, !.loading = TRUE]
        s3 == StartTask(s2, tab, extension)
    IN [s3 EXCEPT !.contentDisposables =
            Append(@, [kind |-> "cancel", load |-> Len(s3.loads)])]

loadContents(s, tab, extension) ==
    LET s1 == DisposeAll(s, s.contentDisposables)
        s2 == [s1 EXCEPT !.contentDisposables = <<>>, !.content = <<>>, !.loading = TRUE]
        s3 == StartTask(s2, tab, extension)
    IN [s3 EXCEPT !.contentDisposables =
            Append(@, [kind |-> "cancel", load |-> Len(s3.loads)])]

openReadme(s, extension) == loadContents(s, Readme, extension)

openContributions(s, extension) == loadContents(s, Contributions, extension)

onNavbarChange(s, extension, id) ==
    CASE id = Readme -> openReadme(s, extension)
      [] id = Contributions -> openContributions(s, extension)
      [] OTHER -> s

\* ---- NavBar ----

RECURSIVE InvokeListeners(_, _, _)
InvokeListeners(s, ls, id) ==
    IF ls = <<>> THEN s
    ELSE InvokeListeners(onNavbarChange(s, Head(ls), id), Tail(ls), id)

\* Emitter.fire: every listener registered when the event fires, in order
fire(s, id) == InvokeListeners([s EXCEPT !.fired = Append(@, id)], s.listeners, id)

\* faulty variant: the comparison of ids inverted
run_EnableSelected(s, i) ==
    LET id == s.actions[i].id
        s1 == fire(s, id)
    IN [s1 EXCEPT !.actions = [k \in 1..Len(s1.actions) |->
                                  [s1.actions[k] EXCEPT !.enabled = (s1.actions[k].id = id)]],
                  !.lastRun = id]

\* the run closure of the action at index i
run(s, i) ==
    LET id == s.actions[i].id
        s1 == fire(s, id)
    IN [s1 EXCEPT !.actions = [k \in 1..Len(s1.actions) |->
                                  [s1.actions[k] EXCEPT !.enabled = (s1.actions[k].id # id)]],
                  !.lastRun = id]

push(s, id) ==
    LET s1 == [s EXCEPT !.actions = Append(@, [id |-> id, enabled |-> TRUE])]
    IN IF Len(s1.actions) = 1 THEN run(s1, 1) ELSE s1

clear(s) == [s EXCEPT !.actions = <<>>, !.lastRun = ""]

\* ---- ExtensionEditor: setInput and dispose ----

Widgets(e) ==
    << [kind |-> "iconError", ext |-> e], [kind |-> "install", ext |-> e],
       [kind |-> "ratings", ext |-> e], [kind |-> "enableAction", ext |-> e],
       [kind |-> "updateAction", ext |-> e], [kind |-> "installAction", ext |-> e] >>

\* faulty variant: the previous input's transientDisposables are not disposed
setInput_KeepTransients(s, e) ==
    LET s2 == [s EXCEPT !.extensionReadme = [ext |-> e, promise |-> 0],
                        !.extensionManifest = [ext |-> e, promise |-> 0],
                        !.readmeCalls = 0, !.manifestCalls = 0,
                        !.readmeCancels = 0, !.manifestCancels = 0,
                        !.transientDisposables = @ \o Widgets(e)]
        s3 == clear(s2)
        s4 == [s3 EXCEPT !.listeners = Append(@, e),
                         !.transientDisposables =
                             Append(@, [kind |-> "navbarListener", ext |-> e])]
        s5 == push(s4, Readme)
        s6 == push(s5, Contributions)
    IN [s6 EXCEPT !.content = <<>>, !.input = e]

setInput(s, e) ==
    LET s1 == [DisposeAll(s, s.transientDisposables) EXCEPT !.transientDisposables = <<>>]
        s2 == [s1 EXCEPT !.extensionReadme = [ext |-> e, promise |-> 0],
                         !.extensionManifest = [ext |-> e, promise |-> 0],
                         !.readmeCalls = 0, !.manifestCalls = 0,
                         !.readmeCancels = 0, !.manifestCancels = 0,
                         !.transientDisposables = @ \o Widgets(e)]
        s3 == clear(s2)
        s4 == [s3 EXCEPT !.listeners = Append(@, e),
                         !.transientDisposables =
                             Append(@, [kind |-> "navbarListener", ext |-> e])]
        s5 == push(s4, Readme)
        s6 == push(s5, Contributions)
    IN [s6 EXCEPT !.content = <<>>, !.input = e]

dispose(s) ==
    LET s1 == [DisposeAll(s, s.transientDisposables) EXCEPT !.transientDisposables = <<>>]
    IN [s1 EXCEPT !.disposables = <<>>, !.disposed = TRUE]

\* ---- the editor's specification ----

NoManifest == [commands |-> <<>>, menus |-> <<>>, keybindings |-> <<>>]

Init ==
    /\ input = 0
    /\ disposed = FALSE
    /\ actions = <<>>
    /\ listeners = <<>>
    /\ fired = <<>>
    /\ lastRun = ""
    /\ extensionReadme = [ext |-> 0, promise |-> 0]
    /\ extensionManifest = [ext |-> 0, promise |-> 0]
    /\ fetches = <<>>
    /\ loads = <<>>
    /\ content = <<>>
    /\ loading = FALSE
    /\ contentDisposables = <<>>
    /\ transientDisposables = <<>>
    /\ disposables = << "onDidViewletOpen", "extensionActionBar" >>
    /\ live = {}
    /\ readmeCalls = 0
    /\ manifestCalls = 0
    /\ readmeCancels = 0
    /\ manifestCancels = 0
    /\ manifest = NoManifest
    /\ rows = <<>>
    /\ summary = -1
    /\ rendered = FALSE

Handler(origin, o) == [Cur EXCEPT !.fired = <<>>, !.origin = origin, !.arrival = o]

renderVars == <<manifest, rows, summary, rendered>>

SetInputUpTo(n) ==
    /\ ~disposed
    /\ Len(loads) < n
    /\ \E e \in 1..NumExt, o \in Arrivals : Commit(setInput(Handler("setInput", o), e))
    /\ UNCHANGED renderVars

\* a click on an enabled tab (the action runner skips a disabled action)
SelectTabUpTo(n) ==
    /\ ~disposed
    /\ Len(loads) < n
    /\ \E i \in 1..Len(actions), o \in Arrivals :
          /\ actions[i].enabled
          /\ Commit(run(Handler("click", o), i))
    /\ UNCHANGED renderVars

SetInput == SetInputUpTo(MaxLoads)

SelectTab == SelectTabUpTo(MaxLoads)

Settle ==
    /\ \E f \in 1..Len(fetches), r \in Outcomes :
          /\ fetches[f].status = "pending"
          /\ Commit(NotifyLoads([Handler("settle", r) EXCEPT !.fetches[f].status = r],
                                f, r, 0, 1))
    /\ UNCHANGED renderVars

Dispose ==
    /\ ~disposed
    /\ Commit(dispose(Handler("dispose", "pending")))
    /\ UNCHANGED renderVars

Next == SetInput \/ SelectTab \/ Settle \/ Dispose

Spec == Init /\ [][Next]_vars

\* the same editor with every pending fetch eventually settling
FairSetInput == SetInputUpTo(MaxFairLoads)

FairSelectTab == SelectTabUpTo(MaxFairLoads)

FairNext == FairSetInput \/ FairSelectTab \/ Settle \/ Dispose

FairSpec == Init /\ [][FairNext]_vars /\ WF_vars(Settle)

\* ---- the NavBar on its own: any sequence of clear, push and run ----

NavIds == NavbarSection \cup {"extra"}

NavClear ==
    /\ Commit(clear(Handler("clear", "pending")))
    /\ UNCHANGED renderVars

NavPush ==
    /\ Len(actions) < MaxActions
    /\ \E id \in NavIds : Commit(push(Handler("push", "pending"), id))
    /\ UNCHANGED renderVars

NavRun ==
    /\ \E i \in 1..Len(actions) : Commit(run(Handler("click", "pending"), i))
    /\ UNCHANGED renderVars

NavNext == NavClear \/ NavPush \/ NavRun

NavSpec == Init /\ [][NavNext]_vars

\* ---- renderCommands ----

CommandIds == {"ext.a", "ext.b"}
MenuContexts == {"editor/context", "explorer/context"}
UserKeys == {"ctrl+k", "CTRL+K", "f1"}

\* keybindingService.getLabelFor(new Keybinding(Keybinding.fromUserSettingsLabel(key)))
getLabelFor(key) ==
    CASE key \in {"ctrl+k", "CTRL+K"} -> "Ctrl+K"
      [] key = "f1" -> "F1"
      [] OTHER -> ""

SeqsUpTo(S, n) == UNION {[1..k -> S] : k \in 0..n}

Injective(q) == \A i, j \in 1..Len(q) : q[i] = q[j] => i = j

\* contributes.commands: <<[command, title]>>; contributes.menus in key order:
\* <<[context, items: <<command>>]>>; contributes.keybindings: <<[command, key]>>
Manifests(nc, nm, nk) ==
    { [commands |-> c, menus |-> m, keybindings |-> k] :
        c \in SeqsUpTo([command : CommandIds, title : {"Title"}], nc),
        m \in { q \in SeqsUpTo([context : MenuContexts,
                                items : SeqsUpTo(CommandIds, nm)],
                               Cardinality(MenuContexts)) :
                  Injective([i \in 1..Len(q) |-> q[i].context]) },
        k \in SeqsUpTo([command : CommandIds, key : UserKeys], nk) }

\* r = [commands: <<Command>>, allCommands: id -> index into commands]
Known(r, id) == id \in DOMAIN r.allCommands

Index(r, id, c) ==
    [x \in DOMAIN r.allCommands \cup {id} |-> IF x = id THEN c ELSE r.allCommands[x]]

AddMenu(r, context, id) ==
    IF ~Known(r, id)
    THEN [commands |-> Append(r.commands,
              [id |-> id, title |-> "", keybindings |-> <<>>, menus |-> <<context>>]),
          allCommands |-> Index(r, id, Len(r.commands) + 1)]
    ELSE [r EXCEPT !.commands[r.allCommands[id]].menus = Append(@, context)]

AddKeybinding(r, id, key) ==
    IF ~Known(r, id)
    THEN [commands |-> Append(r.commands,
              [id |-> id, title |-> "", keybindings |-> <<key>>, menus |-> <<>>]),
          allCommands |-> Index(r, id, Len(r.commands) + 1)]
    ELSE [r EXCEPT !.commands[r.allCommands[id]].keybindings = Append(@, key)]

RECURSIVE ReduceCommands(_, _, _)
ReduceCommands(r, cs, i) ==
    IF i > Len(cs) THEN r
    ELSE ReduceCommands(
            [commands |-> Append(r.commands,
                 [id |-> cs[i].command, title |-> cs[i].title,
                  keybindings |-> <<>>, menus |-> <<>>]),
             allCommands |-> Index(r, cs[i].command, i)],
            cs, i + 1)

RECURSIVE EachMenuItem(_, _, _)
EachMenuItem(r, context, items) ==
    IF items = <<>> THEN r
    ELSE EachMenuItem(AddMenu(r, context, Head(items)), context, Tail(items))

RECURSIVE EachContext(_, _)
EachContext(r, menus) ==
    IF menus = <<>> THEN r
    ELSE EachContext(EachMenuItem(r, Head(menus).context, Head(menus).items), Tail(menus))

RECURSIVE EachKeybinding(_, _)
EachKeybinding(r, ks) ==
    IF ks = <<>> THEN r
    ELSE EachKeybinding(AddKeybinding(r, Head(ks).command, getLabelFor(Head(ks).key)),
                        Tail(ks))

\* the rows of the table, <<>> when the section is omitted
renderCommands(m) ==
    LET r0 == ReduceCommands([commands |-> <<>>, allCommands |-> <<>>], m.commands, 1)
        r1 == EachContext(r0, m.menus)
        r2 == EachKeybinding(r1, m.keybindings)
    IN r2.commands

CmdInit ==
    /\ Init!1 /\ Init!2 /\ Init!3 /\ Init!4 /\ Init!5 /\ Init!6 /\ Init!7 /\ Init!8
    /\ Init!9 /\ Init!10 /\ Init!11 /\ Init!12 /\ Init!13 /\ Init!14 /\ Init!15
    /\ Init!16 /\ Init!17 /\ Init!18 /\ Init!19 /\ Init!20
    /\ manifest \in Manifests(MaxCommands, MaxMenuItems, MaxKeybindings)
    /\ rows = <<>>
    /\ summary = -1
    /\ rendered = FALSE

RenderCommands ==
    /\ ~rendered
    /\ rows' = renderCommands(manifest)
    /\ summary' = IF Len(rows') = 0 THEN -1 ELSE Len(rows')
    /\ rendered' = TRUE
    /\ UNCHANGED <<manifest, input, disposed, actions, listeners, fired, lastRun,
                   extensionReadme, extensionManifest, fetches, loads, content, loading,
                   contentDisposables, transientDisposables, disposables, live,
                   readmeCalls, manifestCalls, readmeCancels, manifestCancels>>

CmdNext == RenderCommands

CmdSpec == CmdInit /\ [][CmdNext]_vars

\* ---- properties ----

Last == Len(loads)
Pending(L) == loads[L].status = "pending"
Disabled == {i \in 1..Len(actions) : ~actions[i].enabled}

\* C1: a load that is followed by a later load is no longer pending (it was
\* cancelled, or had settled, when the later one started), so at most one
\* content load is pending at any time.
C1_AtMostOnePendingLoad ==
    /\ \A L \in 1..(Last - 1) : ~Pending(L)
    /\ Cardinality({L \in 1..Last : Pending(L)}) <= 1

C1_Witness ==
    /\ Last >= 2
    /\ loads[Last - 1].status = "cancelled"
    /\ Pending(Last)

\* C2 as stated: between two setInput calls getReadme() and getManifest() are
\* each invoked at most once, whatever tabs are selected.
C2_AtMostOneFetchPerInput ==
    /\ readmeCalls <= 1
    /\ manifestCalls <= 1

\* C2 amended: between two setInput calls each is invoked at most once plus once
\* for every time its still-pending fetch was cancelled with the load of its
\* tab (the cancel empties the cache).
C2_OneFetchPerInputUnlessCancelled ==
    /\ readmeCalls <= 1 + readmeCancels
    /\ manifestCalls <= 1 + manifestCancels

C2_Witness ==
    \E L1, L2 \in 1..Last :
        /\ L1 < L2
        /\ loads[L1].fetch = loads[L2].fetch
        /\ loads[L2].status = "settled"
        /\ readmeCalls = 1

\* C3: whatever the content panel holds was produced by the most recently
\* started load, which is the load of the selected tab for the extension of
\* the last setInput; no earlier load has written after it started.
C3_ContentIsOfCurrentLoad ==
    \A i \in 1..Len(content) :
        /\ content[i].load = Last
        /\ loads[Last].tab = lastRun
        /\ loads[Last].ext = input
        /\ content[i].kind \in (IF lastRun = Readme THEN {"webview", "noReadme"}
                                                    ELSE {"subcontent"})

C3_Witness ==
    /\ Last >= 3
    /\ loads[Last - 1].status = "cancelled"
    /\ loads[Last].status = "settled"
    /\ loads[Last].origin = "click"
    /\ content # <<>>

\* C4: after setInput, Details is the selected tab and a readme load for the
\* input's extension was started; once that load has settled, with no tab
\* selected since, the content panel is not empty.
C4_SetInputShowsReadme ==
    (Last > 0 /\ loads[Last].origin = "setInput")
    => /\ lastRun = Readme
       /\ loads[Last].tab = Readme
       /\ loads[Last].ext = input
       /\ (loads[Last].status = "settled" => content # <<>>)

\* C5 as stated: with at least one action in the navbar exactly one action is
\* disabled, the one of the tab selected last.
C5_ExactlyOneDisabled ==
    actions # <<>> =>
        /\ Cardinality(Disabled) = 1
        /\ \A i \in Disabled : actions[i].id = lastRun

\* C5 amended: when the ids of the actions in the navbar are pairwise distinct,
\* exactly one action is disabled, the one of the tab selected last (the first
\* pushed if none was run since clear); the first push after a clear fires
\* onChange once with its id and later pushes fire nothing.
C5_ExactlyOneDisabledDistinctIds ==
    /\ [](  (actions # <<>> /\ Injective([i \in 1..Len(actions) |-> actions[i].id]))
            => /\ Cardinality(Disabled) = 1
               /\ \A i \in 1..Len(actions) : actions[i].enabled <=> actions[i].id # lastRun)
    /\ [][ Len(actions') = Len(actions) + 1
           => fired' = IF actions = <<>> THEN << actions'[1].id >> ELSE <<>> ]_vars

C5_Witness ==
    /\ Len(actions) = 3
    /\ Injective([i \in 1..Len(actions) |-> actions[i].id])
    /\ lastRun = actions[2].id
    /\ fired = << lastRun >>

\* C6: after any setInput exactly one onNavbarChange listener is registered, bound
\* to the extension of the last setInput; every setInput and tab selection starts
\* exactly one load, for that extension.
C6_OneNavbarListener ==
    /\ []( (input # 0 /\ ~disposed) => listeners = << input >> )
    /\ [][ fired' # <<>>
           => /\ Len(loads') = Len(loads) + 1
              /\ loads'[Len(loads')].bound = input'
              /\ loads'[Len(loads')].ext = input' ]_vars

C6_Witness ==
    /\ Last >= 3
    /\ loads[Last].origin = "click"
    /\ loads[Last].ext # loads[1].ext
    /\ loads[Last - 1].origin = "setInput"

\* the contexts / key labels the manifest declares for id, in manifest order
RECURSIVE DeclaredMenus(_, _)
DeclaredMenus(menus, id) ==
    IF menus = <<>> THEN <<>>
    ELSE [i \in 1..Len(SelectSeq(Head(menus).items, LAMBDA c : c = id)) |-> Head(menus).context]
         \o DeclaredMenus(Tail(menus), id)

RECURSIVE DeclaredKeys(_, _)
DeclaredKeys(ks, id) ==
    IF ks = <<>> THEN <<>>
    ELSE (IF Head(ks).command = id THEN << getLabelFor(Head(ks).key) >> ELSE <<>>)
         \o DeclaredKeys(Tail(ks), id)

DeclaredIds(m) ==
    {m.commands[i].command : i \in 1..Len(m.commands)}
    \cup UNION {{m.menus[i].items[j] : j \in 1..Len(m.menus[i].items)} : i \in 1..Len(m.menus)}
    \cup {m.keybindings[i].command : i \in 1..Len(m.keybindings)}

RowsMatchManifest ==
    /\ Len(rows) = Cardinality(DeclaredIds(manifest))
    /\ summary = IF DeclaredIds(manifest) = {} THEN -1 ELSE Cardinality(DeclaredIds(manifest))
    /\ \A i \in 1..Len(rows) :
          /\ rows[i].menus = DeclaredMenus(manifest.menus, rows[i].id)
          /\ rows[i].keybindings = DeclaredKeys(manifest.keybindings, rows[i].id)

\* C7: the Commands table has one row per distinct command id of
\* contributes.commands, menus and keybindings, 'Commands (n)' shows that number,
\* each row lists the menu contexts and key labels declared for its id in manifest
\* order, and the section is omitted iff there is no such id.
C7_OneRowPerCommandId == rendered => RowsMatchManifest

\* C7 where contributes.commands names no id twice (the case that holds)
C7_DistinctCommands ==
    (rendered /\ Injective([i \in 1..Len(manifest.commands) |-> manifest.commands[i].command]))
    => RowsMatchManifest

\* C8: the content panel has the 'loading' class iff the most recently started
\* load is pending, and a 'loading' class is eventually removed when fetches
\* settle.
C8_LoadingIffLastLoadPending ==
    /\ [](loading <=> (Last > 0 /\ Pending(Last)))
    /\ (loading ~> ~loading)

C8_Witness ==
    /\ Last >= 2
    /\ loads[Last - 1].status = "cancelled"
    /\ loads[Last].status = "settled"
    /\ ~loading

\* C9: a Details load that settles with a rejected getReadme(), or with a throw
\* in parsing or webview creation, leaves exactly one 'No README available.'
\* paragraph and no webview in the content panel, and no 'loading' class.
C9_ReadmeFailureShowsMessage ==
    (Last > 0 /\ loads[Last].tab = Readme /\ loads[Last].status = "settled"
       /\ loads[Last].result \in {"bad", "err"})
    => /\ content = << [kind |-> "noReadme", load |-> Last] >>
       /\ ~loading

\* C9 for loads started by a tab selection (the case that holds)
C9_AfterTabSelection ==
    (Last > 0 /\ loads[Last].tab = Readme /\ loads[Last].status = "settled"
       /\ loads[Last].result \in {"bad", "err"} /\ loads[Last].origin = "click")
    => /\ content = << [kind |-> "noReadme", load |-> Last] >>
       /\ ~loading

\* C10: after dispose() nothing the editor started is live: no content load is
\* pending (so none can still write into the content panel) and no webview or
\* webview listener is undisposed.
C10_NothingLiveAfterDispose ==
    disposed =>
        /\ listeners = <<>>
        /\ live = {}
        /\ \A L \in 1..Last : ~Pending(L)

====
